---- MODULE Spec2Model ----
(***************************************************************************)
(* A model of cjpatton/shuffle: the decrypting mix, the permutation        *)
(* generator and the two interactive proofs (ILMP and the simple           *)
(* k-shuffle) of shuffle.go, over a small prime-order subgroup.            *)
(***************************************************************************)
EXTENDS Integers, Sequences, FiniteSets, TLC

\* KeyParameters (elgamal.go): a group small enough to enumerate.  G = 3 has
\* order Q = 5 in the multiplicative group modulo P = 11.
P == 11
G == 3
Q == 5

\* The longest input of an ILMP run, and of a Shuffle0 run (which runs ILMP
\* on twice as many elements).
MaxN == 3
MaxK == 2

\* The longest batch Mix is given, and the longest permutation generated.
MaxMix == 3
MaxPerm == 5

\* The secret exponents the inputs of an ILMP run are drawn from: non-zero
\* modulo Q, one of them not reduced modulo Q (the tests multiply samples
\* without reducing them).
ExpPool == {3, 7}

\* Shuffle0 runs are built as TestShuffle0ProveVerify builds them, from
\* x[i] = b*d and y[i] = b*c: the scalars c and d, and the bases b.
CPool == {33}
DPool == {2, 3}
BasePool == {1, 2}

VARIABLES
    proto,      \* which proof runs: "ilmp" or "shuffle0"
    x, y,       \* the prover's arguments (secret exponents)
    c, d,       \* Shuffle0Prove's secret scalars
    X, Y,       \* the verifier's arguments (public elements)
    C, D,       \* Shuffle0Verify's public bases
    prover,     \* the prover goroutine: position, locals, result
    verifier,   \* the verifier goroutine: position, locals, result
    closed,     \* the channel msg has been closed
    wire,       \* history: the messages received from the channel, in order
    closer,     \* history: who closed the channel, and where its peer was
    buf,        \* the items in the channel's buffer, when it has one
    randFails,  \* the run's entropy source can fail
    sk,         \* Mix's receiver: the secret key
    mixR, mixC, \* Mix's arguments R and C
    mixPerm,    \* Mix's argument perm
    mix,        \* a call of Mix: position, locals, result
    gp,         \* a call of GeneratePerm: position, locals, result
    eg          \* GenerateKeys, Encrypt, Decrypt in turn: position, values

proofVars == <<proto, x, y, c, d, X, Y, C, D, prover, verifier, closed, wire,
               closer, buf, randFails>>
mixVars == <<sk, mixR, mixC, mixPerm, mix>>

vars == <<proofVars, mixVars, gp, eg>>

-----------------------------------------------------------------------------
\* math/big

\* big.Int.Exp(b, e, m) for e >= 0 and m > 0.
RECURSIVE Exp(_, _, _)
Exp(b, e, m) ==
    IF e <= 0 THEN 1 % m
    ELSE IF e % 2 = 0
         THEN LET h == Exp(b, e \div 2, m) IN (h * h) % m
         ELSE (b * Exp(b, e - 1, m)) % m

\* big.Int.GCD(x, y, a, b): <<z, x, y>> with z = a*x + b*y, by Euclid's
\* extended algorithm; a = 0 gives x = 0.
RECURSIVE ExtGCD(_, _)
ExtGCD(a, b) ==
    IF b = 0 THEN <<a, 1, 0>>
    ELSE LET g == ExtGCD(b, a % b)
         IN  <<g[1], g[3], g[2] - (a \div b) * g[3]>>

\* The x that z.GCD(&x, &y, a, b) sets.
GCDx(a, b) == IF a = 0 THEN 0 ELSE ExtGCD(a, b)[2]

\* s[i] of a Go slice (indices from 0).
At(s, i) == s[i + 1]

\* A sequence of n copies of v: make([]big.Int, n) is Zeros(n).
Fill(n, v) == [i \in 1 .. n |-> v]
Zeros(n) == Fill(n, 0)

-----------------------------------------------------------------------------
\* crypto/rand

\* A draw from [0, max], max included.
RandIntInclusive(max) == 0 .. max

\* rand.Int(rand.Reader, max): the values a draw can give, [0, max).
RandInt(max) == 0 .. (max - 1)

-----------------------------------------------------------------------------
\* elgamal.go: KeyParameters, GenerateKeys, Encrypt, Decrypt

\* The parameters of the proofs, and two more groups: G of order Q modulo P.
Params == [P |-> P, G |-> G, Q |-> Q]
Groups == {Params, [P |-> 7, G |-> 2, Q |-> 3], [P |-> 23, G |-> 2, Q |-> 11]}

\* The subgroup G generates.
Subgroup(params) == { Exp(params.G, k, params.P) : k \in 0 .. (params.Q - 1) }

\* The key pair of the exponent X.
KeyPair(params, e) ==
    [sk |-> [P |-> params.P, G |-> params.G, Q |-> params.Q,
             X |-> e, qMinusX |-> params.Q - e],
     pk |-> [P |-> params.P, G |-> params.G, Q |-> params.Q,
             qMinusOne |-> params.Q - 1, one |-> 1,
             Y |-> Exp(params.G, e, params.P)]]

\* The key pairs with the drawn exponent used as it is.
GenerateKeysUnshifted(params) ==
    { KeyPair(params, k) : k \in RandInt(params.Q - 1) }

\* GenerateKeys: X is a draw from [0, Q-1) plus one.
GenerateKeysOf(params) ==
    { KeyPair(params, k + 1) : k \in RandInt(params.Q - 1) }

\* Encrypt with the exponent r: (G^r mod P, M * Y^r mod P).
EncryptWith(M, pk, r) ==
    [R |-> Exp(pk.G, r, pk.P), C |-> (M * Exp(pk.Y, r, pk.P)) % pk.P]

\* Decrypt with the exponent X in place of qMinusX.
DecryptByX(Rv, Cv, key) == (Exp(Rv, key.X, key.P) * Cv) % key.P

\* Decrypt: M = R^qMinusX * C mod P.
Decrypt(Rv, Cv, key) == (Exp(Rv, key.qMinusX, key.P) * Cv) % key.P

-----------------------------------------------------------------------------
\* KeyParameters.Sample: the exponents a draw can give, [1, Q-1].
Sample == 1 .. (Q - 1)

\* The message a party puts on the channel: a slice, or nil.
Msg(v) == [nil |-> FALSE, v |-> v]
NilMsg == [nil |-> TRUE, v |-> <<>>]

-----------------------------------------------------------------------------
\* ILMPProve

\* P1: the blinding exponents theta[0..N], theta[0] = theta[N] = 0 and the
\* others sampled.
Thetas(N) == { <<0>> \o s \o <<0>> : s \in [1 .. (N - 1) -> Sample] }

\* P1: the commitment A[i] = G^(x[i]*theta[i]) * G^(y[i]*theta[i+1]) mod P.
Commit(xs, ys, theta) ==
    [k \in 1 .. Len(xs) |->
        (Exp(G, xs[k] * theta[k], P) * Exp(G, ys[k] * theta[k + 1], P)) % P]

\* The denominator itself where its inverse modulo Q belongs.
InverseOmitted(den) == den

\* P2: the inverse of the denominator, as z.GCD(&inv, &q, den, params.Q)
\* sets it.
Inverse(den) == GCDx(den, Q)

\* The term of r[i] with no sign applied.
Unsigned(N, i, v) == v

\* P2: the sign of the term of r[i]: subtracted from Q when N-i-1 is odd.
Signed(N, i, v) == IF (N - i - 1) % 2 = 1 THEN Q - v ELSE v

\* P2: the loop body for index i, from the running products.
RespAt(N, i, num, den, gamma0, theta) ==
    Signed(N, i, ((num * Inverse(den)) * gamma0) % Q) + At(theta, i + 1)

\* P2: the response r[0..N-2], accumulated from i = N-2 down to 0.
RECURSIVE RespLoop(_, _, _, _, _, _, _, _)
RespLoop(xs, ys, theta, gamma0, i, num, den, r) ==
    IF i < 0 THEN r
    ELSE LET num2 == num * At(ys, i + 1)
             den2 == den * At(xs, i + 1)
         IN  RespLoop(xs, ys, theta, gamma0, i - 1, num2, den2,
                      [r EXCEPT ![i + 1] =
                          RespAt(Len(xs), i, num2, den2, gamma0, theta)])

Response(xs, ys, theta, gamma0) ==
    RespLoop(xs, ys, theta, gamma0, Len(xs) - 2, 1, 1, Zeros(Len(xs) - 1))

\* A party returning the error of Sample without a word to its peer.
SampleFailedSilently(p) ==
    IF randFails THEN { [p EXCEPT !.pc = "done", !.ret = "errRand"] } ELSE {}

\* A party whose call of Sample has failed: it is about to send nil and
\* return the error.  Sample fails only when the entropy source can.
SampleFailed(p) ==
    IF randFails
    THEN { [p EXCEPT !.pc = "sendNil", !.ret = "errRand", !.out = NilMsg] }
    ELSE {}

\* The prover at the first channel operation of ILMPProve(xs, ys, msg).  P1
\* calls Sample N-1 times.
ILMPProveEnter(p, xs, ys) ==
    IF Len(xs) # Len(ys)
    THEN { [p EXCEPT !.pc = "sendNil", !.ret = "errLen", !.out = NilMsg] }
    ELSE { [p EXCEPT !.pc = "sendA", !.x = xs, !.y = ys, !.theta = th,
                     !.out = Msg(Commit(xs, ys, th))] : th \in Thetas(Len(xs)) }
         \cup (IF Len(xs) >= 2 THEN SampleFailed(p) ELSE {})

-----------------------------------------------------------------------------
\* ILMPVerify

\* The exponent of X[0] with the parity test inverted.
FirstExpFlipped(N, gamma0) == IF (N - 1) % 2 = 1 THEN gamma0 ELSE Q - gamma0

\* V2, first equation: the exponent of X[0].
FirstExp(N, gamma0) == IF (N - 1) % 2 = 1 THEN Q - gamma0 ELSE gamma0

FirstEq(Xs, Ys, A, gamma0, r) ==
    Exp(At(Ys, 0), At(r, 0), P)
        = (At(A, 0) * Exp(At(Xs, 0), FirstExp(Len(Xs), gamma0), P)) % P

\* An intermediate equation that is not evaluated.
MidEqSkipped(Xs, Ys, A, r, i) == TRUE

\* V2, intermediate equation i.
MidEq(Xs, Ys, A, r, i) ==
    (Exp(At(Xs, i), At(r, i - 1), P) * Exp(At(Ys, i), At(r, i), P)) % P
        = At(A, i)

LastEq(Xs, Ys, A, gamma0, r) ==
    LET N == Len(Xs)
    IN  Exp(At(Xs, N - 1), At(r, N - 2), P)
            = (At(A, N - 1) * Exp(At(Ys, N - 1), Q - gamma0, P)) % P

\* i is an index of the slice s.
InRange(s, i) == 0 <= i /\ i < Len(s)

\* V2 from the last equation on: "true", "false", or "panic" when an index
\* is out of range.
VerifyLast(Xs, Ys, A, gamma0, r) ==
    LET N == Len(Xs)
    IN  IF ~(InRange(r, N - 2) /\ InRange(A, N - 1)) THEN "panic"
        ELSE IF LastEq(Xs, Ys, A, gamma0, r) THEN "true" ELSE "false"

\* V2 from the intermediate equation i on.
RECURSIVE VerifyMid(_, _, _, _, _, _)
VerifyMid(Xs, Ys, A, gamma0, r, i) ==
    IF ~(i < Len(Xs) - 1) THEN VerifyLast(Xs, Ys, A, gamma0, r)
    ELSE IF ~(InRange(r, i) /\ InRange(A, i)) THEN "panic"
    ELSE IF ~MidEq(Xs, Ys, A, r, i) THEN "false"
    ELSE VerifyMid(Xs, Ys, A, gamma0, r, i + 1)

\* V2: the verifier's decision on (A, gamma, r).
Verify(Xs, Ys, A, gamma0, r) ==
    IF ~(InRange(Ys, 0) /\ InRange(r, 0) /\ InRange(A, 0)) THEN "panic"
    ELSE IF ~FirstEq(Xs, Ys, A, gamma0, r) THEN "false"
    ELSE VerifyMid(Xs, Ys, A, gamma0, r, 1)

\* The verifier with gamma sampled on entry, about to send it.
ILMPVerifyEnterEager(v, Xs, Ys) ==
    { [v EXCEPT !.pc = "sendGamma", !.X = Xs, !.Y = Ys, !.gamma = <<g>>,
                !.out = Msg(<<g>>)] : g \in Sample }

\* The verifier at the first channel operation of ILMPVerify(Xs, Ys, msg).
ILMPVerifyEnter(v, Xs, Ys) ==
    IF Len(Xs) # Len(Ys)
    THEN { [v EXCEPT !.pc = "sendNil", !.ret = "errLen", !.out = NilMsg] }
    ELSE { [v EXCEPT !.pc = "recvA", !.X = Xs, !.Y = Ys] }

-----------------------------------------------------------------------------
\* Shuffle0Prove and Shuffle0Verify

\* phi with d in its second half.
Phi0SecondHalfD(xs, cc, dd, t) ==
    [k \in 1 .. Len(xs) |-> (xs[k] - dd * t) % Q] \o Fill(Len(xs), dd)

\* P1 of Shuffle0Prove: phi[i] = x[i] - d*t mod Q, phi[N+i] = c.
Phi0(xs, cc, dd, t) ==
    [k \in 1 .. Len(xs) |-> (xs[k] - dd * t) % Q] \o Fill(Len(xs), cc)

\* P1 of Shuffle0Prove: psi[i] = y[i] - c*t mod Q, psi[N+i] = d.
Psi0(ys, cc, dd, t) ==
    [k \in 1 .. Len(ys) |-> (ys[k] - cc * t) % Q] \o Fill(Len(ys), dd)

\* P1 of Shuffle0Verify: Phi[i] = X[i] * (D^t)^-1 mod P, Phi[N+i] = C.
PubPhi(Xs, CC, DD, t) ==
    [k \in 1 .. Len(Xs) |-> (Xs[k] * GCDx(Exp(DD, t, P), P)) % P]
        \o Fill(Len(Xs), CC)

\* P1 of Shuffle0Verify: Psi[i] = Y[i] * (C^t)^-1 mod P, Psi[N+i] = D.
PubPsi(Ys, CC, DD, t) ==
    [k \in 1 .. Len(Ys) |-> (Ys[k] * GCDx(Exp(CC, t, P), P)) % P]
        \o Fill(Len(Ys), DD)

\* The prover at the first channel operation of Shuffle0Prove.
Shuffle0ProveEnter(p) ==
    IF Len(x) # Len(y)
    THEN { [p EXCEPT !.pc = "sendNil", !.ret = "errLen", !.out = NilMsg] }
    ELSE { [p EXCEPT !.pc = "recvT"] }

\* The verifier at the first channel operation of Shuffle0Verify.
Shuffle0VerifyEnter(v) ==
    IF Len(X) # Len(Y)
    THEN { [v EXCEPT !.pc = "sendNil", !.ret = "errLen", !.out = NilMsg] }
    ELSE { [v EXCEPT !.pc = "sendT", !.t = s, !.out = Msg(<<s>>)] : s \in Sample }
         \cup SampleFailed(v)

-----------------------------------------------------------------------------
\* The two goroutines, from one channel operation to the next

PSendPcs == {"sendNil", "sendA", "sendR"}
PRecvPcs == {"recvT", "recvGamma"}
VSendPcs == {"sendNil", "sendT", "sendGamma"}
VRecvPcs == {"recvA", "recvR"}

\* Shuffle0Prove once its call of ILMPProve has returned: the error, if
\* any, is returned (wrapped), and nil otherwise.
Shuffle0ProveReturn(p) ==
    [p EXCEPT !.inner = [ok |-> FALSE, ret |-> p.ret], !.callee = "none"]

\* Shuffle0Verify passing on ok and dropping the error.
Shuffle0VerifyReturnNoErr(v) ==
    [v EXCEPT !.inner = [ok |-> v.ok, ret |-> v.ret], !.callee = "none",
              !.ret = "ok"]

\* Shuffle0Verify once its call of ILMPVerify has returned (ok, err):
\* (false, err) on an error, (false, nil) when not ok, (true, nil) otherwise.
Shuffle0VerifyReturn(v) ==
    [v EXCEPT !.inner = [ok |-> v.ok, ret |-> v.ret], !.callee = "none",
              !.ok = IF v.ret # "ok" THEN FALSE
                     ELSE IF ~v.ok THEN FALSE ELSE TRUE]

\* The party returns ret from the function it is in; a panic unwinds the
\* whole goroutine.
Return(p, ret) ==
    LET q == [p EXCEPT !.pc = "done", !.ret = ret]
    IN  IF ret = "panic" \/ p.callee = "none" THEN q
        ELSE IF p.callee = "ILMPProve" THEN Shuffle0ProveReturn(q)
        ELSE Shuffle0VerifyReturn(q)

\* The prover waiting for a word of the verifier once r has been taken.
ProverSentThenWaits(p) ==
    CASE p.pc = "sendNil" -> { Return(p, p.ret) }
      [] p.pc = "sendA"   -> { [p EXCEPT !.pc = "recvGamma"] }
      [] p.pc = "sendR"   -> { [p EXCEPT !.pc = "recvGamma"] }

\* The prover once its send has been taken.
ProverSent(p) ==
    CASE p.pc = "sendNil" -> { Return(p, p.ret) }
      [] p.pc = "sendA"   -> { [p EXCEPT !.pc = "recvGamma"] }
      [] p.pc = "sendR"   -> { Return(p, "ok") }

\* The prover once its receive has given m.
ProverRecv(p, m) ==
    CASE p.pc = "recvT" ->
            IF m.nil THEN { Return(p, "errPeer") }
            ELSE IF ~InRange(m.v, 0) THEN { Return(p, "panic") }
            ELSE ILMPProveEnter([p EXCEPT !.callee = "ILMPProve"],
                                Phi0(x, c, d, At(m.v, 0)),
                                Psi0(y, c, d, At(m.v, 0)))
      [] p.pc = "recvGamma" ->
            IF m.nil THEN { Return(p, "errPeer") }
            ELSE IF Len(p.x) >= 2 /\ ~InRange(m.v, 0) THEN { Return(p, "panic") }
            ELSE { [p EXCEPT !.pc = "sendR", !.gamma = m.v,
                     !.out = Msg(IF Len(p.x) >= 2
                                 THEN Response(p.x, p.y, p.theta, At(m.v, 0))
                                 ELSE <<>>)] }

\* The verifier waiting for A again once gamma has been taken.
VerifierSentThenA(v) ==
    CASE v.pc = "sendNil"   -> { Return(v, v.ret) }
      [] v.pc = "sendT"     -> ILMPVerifyEnter([v EXCEPT !.callee = "ILMPVerify"],
                                               PubPhi(X, C, D, v.t),
                                               PubPsi(Y, C, D, v.t))
      [] v.pc = "sendGamma" -> { [v EXCEPT !.pc = "recvA"] }

\* The verifier once its send has been taken.
VerifierSent(v) ==
    CASE v.pc = "sendNil"   -> { Return(v, v.ret) }
      [] v.pc = "sendT"     -> ILMPVerifyEnter([v EXCEPT !.callee = "ILMPVerify"],
                                               PubPhi(X, C, D, v.t),
                                               PubPsi(Y, C, D, v.t))
      [] v.pc = "sendGamma" -> { [v EXCEPT !.pc = "recvR"] }

\* The verifier's return from V2.
Decide(v, res) ==
    IF res = "panic" THEN Return(v, "panic")
    ELSE Return([v EXCEPT !.ok = (res = "true")], "ok")

\* The verifier once its receive has given m.
VerifierRecv(v, m) ==
    CASE v.pc = "recvA" ->
            IF m.nil THEN { Return(v, "errPeer") }
            ELSE { [v EXCEPT !.pc = "sendGamma", !.A = m.v, !.gamma = <<g>>,
                             !.out = Msg(<<g>>)] : g \in Sample }
                 \cup SampleFailed([v EXCEPT !.A = m.v])
      [] v.pc = "recvR" ->
            IF m.nil THEN { Return(v, "errPeer") }
            ELSE { Decide([v EXCEPT !.r = m.v],
                          Verify(v.X, v.Y, v.A, At(v.gamma, 0), m.v)) }

-----------------------------------------------------------------------------
\* The state before either goroutine has run.

Prover0 ==
    [pc |-> "start", ret |-> "none", x |-> <<>>, y |-> <<>>, theta |-> <<>>,
     gamma |-> <<>>, out |-> NilMsg, callee |-> "none",
     inner |-> [ok |-> FALSE, ret |-> "none"]]

Verifier0 ==
    [pc |-> "start", ret |-> "none", ok |-> FALSE, X |-> <<>>, Y |-> <<>>,
     A |-> <<>>, gamma |-> <<>>, r |-> <<>>, t |-> 0, out |-> NilMsg,
     callee |-> "none", inner |-> [ok |-> FALSE, ret |-> "none"]]

\* X[i] = G^x[i] mod P, as the tests build the public sequences.
Pub(xs) == [k \in 1 .. Len(xs) |-> Exp(G, xs[k], P)]

\* No call of Mix or of GeneratePerm is under way.
NoKey == [P |-> 0, G |-> 0, Q |-> 0, X |-> 0, qMinusX |-> 0]
NoPub == [P |-> 0, G |-> 0, Q |-> 0, qMinusOne |-> 0, one |-> 0, Y |-> 0]
ElGamal0 ==
    [pc |-> "start", params |-> Params, M |-> 0, pk |-> NoPub, sk |-> NoKey,
     r |-> 0, R |-> 0, C |-> 0, out |-> 0]
NoElGamal == eg = [ElGamal0 EXCEPT !.pc = "idle"]
Mix0 ==
    [pc |-> "start", i |-> 0, M |-> <<>>, err |-> "none", out |-> NilMsg,
     writes |-> <<>>, decrypts |-> 0]
GeneratePerm0 ==
    [pc |-> "start", n |-> 0, perm |-> <<>>, max |-> 0, i |-> 0, j |-> 0,
     out |-> NilMsg]
NoMix ==
    /\ sk = NoKey /\ mixR = <<>> /\ mixC = <<>> /\ mixPerm = <<>>
    /\ mix = [Mix0 EXCEPT !.pc = "idle"]
NoGeneratePerm == gp = [GeneratePerm0 EXCEPT !.pc = "idle"]

\* No proof is under way.
NoProof ==
    /\ proto = "none"
    /\ x = <<>> /\ y = <<>> /\ X = <<>> /\ Y = <<>>
    /\ c = 0 /\ d = 0 /\ C = 0 /\ D = 0
    /\ prover = [Prover0 EXCEPT !.pc = "idle"]
    /\ verifier = [Verifier0 EXCEPT !.pc = "idle"]
    /\ closed = FALSE
    /\ wire = <<>>
    /\ closer = [by |-> "none", peer |-> "none"]
    /\ buf = <<>>
    /\ randFails = FALSE

\* What both runs start from: the goroutines not yet started, on a channel
\* made by make(chan []big.Int).
InitRun ==
    /\ NoMix /\ NoGeneratePerm /\ NoElGamal
    /\ buf = <<>>
    /\ randFails = FALSE
    /\ X = Pub(x) /\ Y = Pub(y)
    /\ prover = Prover0
    /\ verifier = Verifier0
    /\ closed = FALSE
    /\ wire = <<>>
    /\ closer = [by |-> "none", peer |-> "none"]

\* An ILMP run on inputs of equal length (TestSILMPP, TestBadSILMPP).
Init ==
    /\ proto = "ilmp"
    /\ \E N \in 1 .. MaxN :
         /\ x \in [1 .. N -> ExpPool]
         /\ y \in [1 .. N -> ExpPool]
    /\ c = 0 /\ d = 0 /\ C = 0 /\ D = 0
    /\ InitRun

\* A Shuffle0 run on x[i] = b*d, y[i] = b*c (TestShuffle0ProveVerify).
InitShuffle0 ==
    /\ proto = "shuffle0"
    /\ c \in CPool /\ d \in DPool
    /\ \E N \in 1 .. MaxK : \E b \in [1 .. N -> BasePool] :
         /\ x = [k \in 1 .. N |-> b[k] * d]
         /\ y = [k \in 1 .. N |-> b[k] * c]
    /\ C = Exp(G, c, P) /\ D = Exp(G, d, P)
    /\ InitRun

\* What no step of a proof run on an unbuffered channel changes: the
\* arguments of the call, the entropy source, the (absent) buffer and the
\* variables of Mix, GeneratePerm and the ElGamal functions.
Args == <<proto, x, y, c, d, X, Y, C, D, buf, randFails, mixVars, gp, eg>>

\* go func() { params.ILMPProve(x, y, msg) }(), up to its first channel
\* operation.
ProverStart ==
    /\ prover.pc = "start"
    /\ prover' \in (IF proto = "ilmp" THEN ILMPProveEnter(prover, x, y)
                    ELSE Shuffle0ProveEnter(prover))
    /\ UNCHANGED <<Args, verifier, closed, wire, closer>>

\* params.ILMPVerify(X, Y, msg), up to its first channel operation.
VerifierStart ==
    /\ verifier.pc = "start"
    /\ verifier' \in (IF proto = "ilmp" THEN ILMPVerifyEnter(verifier, X, Y)
                      ELSE Shuffle0VerifyEnter(verifier))
    /\ UNCHANGED <<Args, prover, closed, wire, closer>>

\* msg <- v in the prover meets <-msg in the verifier.
PtoV ==
    /\ ~closed
    /\ prover.pc \in PSendPcs
    /\ verifier.pc \in VRecvPcs
    /\ prover' \in ProverSent(prover)
    /\ verifier' \in VerifierRecv(verifier, prover.out)
    /\ wire' = Append(wire, [from |-> "P", to |-> "V", msg |-> prover.out])
    /\ UNCHANGED <<Args, closed, closer>>

\* msg <- v in the verifier meets <-msg in the prover.
VtoP ==
    /\ ~closed
    /\ verifier.pc \in VSendPcs
    /\ prover.pc \in PRecvPcs
    /\ verifier' \in VerifierSent(verifier)
    /\ prover' \in ProverRecv(prover, verifier.out)
    /\ wire' = Append(wire, [from |-> "V", to |-> "P", msg |-> verifier.out])
    /\ UNCHANGED <<Args, closed, closer>>

Next == ProverStart \/ VerifierStart \/ PtoV \/ VtoP

Spec == Init /\ [][Next]_vars

SpecShuffle0 == InitShuffle0 /\ [][Next]_vars

-----------------------------------------------------------------------------
\* ILMPVerify against a peer that does not follow ILMPProve

\* What the verifier receives in place of the message s: element k of a
\* commitment multiplied by G, element k of a response incremented.
Tampered(pc, s, k) ==
    IF pc = "sendA" THEN [s EXCEPT ![k] = (@ * G) % P]
    ELSE [s EXCEPT ![k] = @ + 1]

\* x with its first element replaced by the other exponent of the pool.
OtherFirst(xs) ==
    [xs EXCEPT ![1] = CHOOSE e \in ExpPool : e # xs[1]]

\* An ILMP run with N >= 2, on y = x or on a y whose product differs.
InitForge ==
    /\ proto = "ilmp"
    /\ \E N \in 2 .. MaxN :
         /\ x \in [1 .. N -> ExpPool]
         /\ y \in {x, OtherFirst(x)}
    /\ c = 0 /\ d = 0 /\ C = 0 /\ D = 0
    /\ InitRun

\* <-msg in the verifier gives a commitment or a response that differs in
\* one element from what ILMPProve sent.
PtoVTampered ==
    /\ ~closed
    /\ prover.pc \in {"sendA", "sendR"}
    /\ verifier.pc \in VRecvPcs
    /\ \E k \in 1 .. Len(prover.out.v) :
         LET m == Msg(Tampered(prover.pc, prover.out.v, k))
         IN  /\ verifier' \in VerifierRecv(verifier, m)
             /\ wire' = Append(wire, [from |-> "P", to |-> "V", msg |-> m])
    /\ prover' \in ProverSent(prover)
    /\ UNCHANGED <<Args, closed, closer>>

NextForge == ProverStart \/ VerifierStart \/ PtoV \/ VtoP \/ PtoVTampered

SpecForge == InitForge /\ [][NextForge]_vars

-----------------------------------------------------------------------------
\* Calls with sequences of different lengths

\* s without its last element.
Short(s) == SubSeq(s, 1, Len(s) - 1)

\* Which of a party's two sequences is one element short.
Cuts == {"neither", "first", "second"}
CutFirst(cut, s) == IF cut = "first" THEN Short(s) ELSE s
CutSecond(cut, s) == IF cut = "second" THEN Short(s) ELSE s

\* An ILMP or Shuffle0 run in which the prover, the verifier or both are
\* called with two sequences of different lengths.
InitMismatch ==
    \E pcut \in Cuts, vcut \in Cuts, N \in 1 .. MaxK :
      \E b \in [1 .. N -> BasePool] :
        /\ pcut # "neither" \/ vcut # "neither"
        /\ proto \in {"ilmp", "shuffle0"}
        /\ c \in CPool /\ d \in DPool
        /\ x = CutFirst(pcut, [k \in 1 .. N |-> b[k] * d])
        /\ y = CutSecond(pcut, [k \in 1 .. N |-> b[k] * c])
        /\ X = CutFirst(vcut, Pub([k \in 1 .. N |-> b[k] * d]))
        /\ Y = CutSecond(vcut, Pub([k \in 1 .. N |-> b[k] * c]))
        /\ C = Exp(G, c, P) /\ D = Exp(G, d, P)
        /\ prover = Prover0
        /\ verifier = Verifier0
        /\ closed = FALSE
        /\ wire = <<>>
        /\ closer = [by |-> "none", peer |-> "none"]
        /\ buf = <<>>
        /\ randFails = FALSE
        /\ NoMix /\ NoGeneratePerm /\ NoElGamal

SpecMismatch == InitMismatch /\ [][Next]_vars

-----------------------------------------------------------------------------
\* Runs that may fail: lengths that differ, an entropy source that fails

\* The bases of a run: all equal (TestShuffle0ProveVerify), or all distinct.
BaseSeqs(N) == {Fill(N, 1), [k \in 1 .. N |-> k]}

\* An ILMP or Shuffle0 run in which either party may be called with
\* sequences of different lengths, and Sample may fail.  With d = 4 the
\* products of x and y differ modulo Q for N = 2 as well.
InitFaults ==
    \E pcut \in Cuts, vcut \in Cuts, N \in 1 .. MaxK :
      \E b \in BaseSeqs(N) :
        /\ proto \in {"ilmp", "shuffle0"}
        /\ c \in CPool /\ d \in DPool \cup {4}
        /\ x = CutFirst(pcut, [k \in 1 .. N |-> b[k] * d])
        /\ y = CutSecond(pcut, [k \in 1 .. N |-> b[k] * c])
        /\ X = CutFirst(vcut, Pub([k \in 1 .. N |-> b[k] * d]))
        /\ Y = CutSecond(vcut, Pub([k \in 1 .. N |-> b[k] * c]))
        /\ C = Exp(G, c, P) /\ D = Exp(G, d, P)
        /\ prover = Prover0
        /\ verifier = Verifier0
        /\ closed = FALSE
        /\ wire = <<>>
        /\ closer = [by |-> "none", peer |-> "none"]
        /\ buf = <<>>
        /\ randFails \in BOOLEAN
        /\ NoMix /\ NoGeneratePerm /\ NoElGamal

SpecFaults == InitFaults /\ [][Next]_vars

-----------------------------------------------------------------------------
\* Honest runs under fair scheduling

\* An ILMP run with N >= 2 on y = x or on a y whose product differs, or a
\* Shuffle0 run with N >= 1, on inputs of equal length.
InitHonest ==
    /\ proto \in {"ilmp", "shuffle0"}
    /\ IF proto = "ilmp"
       THEN /\ \E N \in 2 .. MaxN : \E b \in BaseSeqs(N) :
                 /\ x = [k \in 1 .. N |-> b[k] + 2]
                 /\ y \in {x, OtherFirst(x)}
            /\ c = 0 /\ d = 0 /\ C = 0 /\ D = 0
       ELSE /\ c \in CPool /\ d \in DPool
            /\ \E N \in 1 .. MaxK : \E b \in BaseSeqs(N) :
                 /\ x = [k \in 1 .. N |-> b[k] * d]
                 /\ y = [k \in 1 .. N |-> b[k] * c]
            /\ C = Exp(G, c, P) /\ D = Exp(G, d, P)
    /\ InitRun

\* The prover's send and the verifier's receive are both ready, and the
\* channel hands the prover's value over.
PtoVMeet ==
    /\ ~closed
    /\ prover.pc \in PSendPcs
    /\ verifier.pc \in VRecvPcs
    /\ wire' = Append(wire, [from |-> "P", to |-> "V", msg |-> prover.out])

\* The verifier's send and the prover's receive are both ready, and the
\* channel hands the verifier's value over.
VtoPMeet ==
    /\ ~closed
    /\ verifier.pc \in VSendPcs
    /\ prover.pc \in PRecvPcs
    /\ wire' = Append(wire, [from |-> "V", to |-> "P", msg |-> verifier.out])

\* The Go scheduler runs every goroutine that can take a step: a goroutine
\* that is not blocked starts, and a send that meets a receive completes.
\* Under [][Next]_vars a step that hands a value over the channel is the
\* step PtoV or VtoP.
Fairness ==
    /\ WF_vars(ProverStart) /\ WF_vars(VerifierStart)
    /\ WF_wire(PtoVMeet) /\ WF_wire(VtoPMeet)

SpecLive == InitHonest /\ [][Next]_vars /\ Fairness

-----------------------------------------------------------------------------
\* The instance of the test of batch sizes

\* for N := 2; N < 10; N++
BatchMax == 9

\* x[i] = i + 2, and c = 2 added to x[0].
BatchX(N) == [k \in 1 .. N |-> (k - 1) + 2 + (IF k - 1 = 0 THEN 2 ELSE 0)]

\* y[i] = i + 2 with c = 2 added to y[0], as for x.
BatchYFirst(N) == [k \in 1 .. N |-> (k - 1) + 2 + (IF k - 1 = 0 THEN 2 ELSE 0)]

\* y[i] = i + 2, and c = 2 added to y[N-1].
BatchY(N) == [k \in 1 .. N |-> (k - 1) + 2 + (IF k - 1 = N - 1 THEN 2 ELSE 0)]

\* An ILMP run on the instance of the test, for the batch sizes up to MaxN.
InitBatch ==
    /\ proto = "ilmp"
    /\ \E N \in 2 .. MaxN : x = BatchX(N) /\ y = BatchY(N)
    /\ c = 0 /\ d = 0 /\ C = 0 /\ D = 0
    /\ InitRun

SpecBatch == InitBatch /\ [][Next]_vars

-----------------------------------------------------------------------------
\* A channel closed under a run

\* An honest run on inputs of equal length: ILMP on x = y, Shuffle0 as
\* TestShuffle0ProveVerify builds it.
InitClose ==
    /\ proto \in {"ilmp", "shuffle0"}
    /\ c \in CPool /\ d \in DPool
    /\ \E N \in 1 .. MaxK : \E b \in [1 .. N -> BasePool] :
         /\ x = [k \in 1 .. N |-> b[k] * d]
         /\ y = IF proto = "ilmp" THEN x ELSE [k \in 1 .. N |-> b[k] * c]
    /\ C = Exp(G, c, P) /\ D = Exp(G, d, P)
    /\ InitRun

\* close(msg) on the prover's side, which leaves the run.
ProverClose ==
    /\ ~closed
    /\ prover.pc \notin {"done", "gone"}
    /\ closed' = TRUE
    /\ closer' = [by |-> "P", peer |-> verifier.pc]
    /\ prover' = [prover EXCEPT !.pc = "gone"]
    /\ UNCHANGED <<Args, verifier, wire>>

\* close(msg) on the verifier's side, which leaves the run.
VerifierClose ==
    /\ ~closed
    /\ verifier.pc \notin {"done", "gone"}
    /\ closed' = TRUE
    /\ closer' = [by |-> "V", peer |-> prover.pc]
    /\ verifier' = [verifier EXCEPT !.pc = "gone"]
    /\ UNCHANGED <<Args, prover, wire>>

\* <-msg on the closed channel gives nil.
ProverRecvClosed ==
    /\ closed
    /\ prover.pc \in PRecvPcs
    /\ prover' \in ProverRecv(prover, NilMsg)
    /\ UNCHANGED <<Args, verifier, closed, wire, closer>>

VerifierRecvClosed ==
    /\ closed
    /\ verifier.pc \in VRecvPcs
    /\ verifier' \in VerifierRecv(verifier, NilMsg)
    /\ UNCHANGED <<Args, prover, closed, wire, closer>>

\* msg <- v on the closed channel panics ("send on closed channel").
ProverSendClosed ==
    /\ closed
    /\ prover.pc \in PSendPcs
    /\ prover' = Return(prover, "panic")
    /\ UNCHANGED <<Args, verifier, closed, wire, closer>>

VerifierSendClosed ==
    /\ closed
    /\ verifier.pc \in VSendPcs
    /\ verifier' = Return(verifier, "panic")
    /\ UNCHANGED <<Args, prover, closed, wire, closer>>

NextClose ==
    \/ ProverStart \/ VerifierStart \/ PtoV \/ VtoP
    \/ ProverClose \/ VerifierClose
    \/ ProverRecvClosed \/ VerifierRecvClosed
    \/ ProverSendClosed \/ VerifierSendClosed

SpecClose == InitClose /\ [][NextClose]_vars

-----------------------------------------------------------------------------
\* A run on a channel with a buffer

\* The capacity of the channel: one item at a time.
BufCap == 1

\* An honest run on inputs of equal length, the buffer empty.
InitBuffered == InitClose

\* msg <- v in the prover: it does not block while the buffer has room.
ProverSendBuf ==
    /\ prover.pc \in PSendPcs
    /\ Len(buf) < BufCap
    /\ buf' = Append(buf, [from |-> "P", msg |-> prover.out])
    /\ prover' \in ProverSent(prover)
    /\ UNCHANGED <<proto, x, y, c, d, X, Y, C, D, verifier, closed, wire,
                   closer, randFails, mixVars, gp, eg>>

\* <-msg in the prover: it takes the item at the head of the buffer.
ProverRecvBuf ==
    /\ prover.pc \in PRecvPcs
    /\ buf # <<>>
    /\ buf' = Tail(buf)
    /\ prover' \in ProverRecv(prover, Head(buf).msg)
    /\ wire' = Append(wire, [from |-> Head(buf).from, to |-> "P",
                             msg |-> Head(buf).msg])
    /\ UNCHANGED <<proto, x, y, c, d, X, Y, C, D, verifier, closed, closer,
                   randFails, mixVars, gp, eg>>

\* msg <- v in the verifier.
VerifierSendBuf ==
    /\ verifier.pc \in VSendPcs
    /\ Len(buf) < BufCap
    /\ buf' = Append(buf, [from |-> "V", msg |-> verifier.out])
    /\ verifier' \in VerifierSent(verifier)
    /\ UNCHANGED <<proto, x, y, c, d, X, Y, C, D, prover, closed, wire,
                   closer, randFails, mixVars, gp, eg>>

\* <-msg in the verifier.
VerifierRecvBuf ==
    /\ verifier.pc \in VRecvPcs
    /\ buf # <<>>
    /\ buf' = Tail(buf)
    /\ verifier' \in VerifierRecv(verifier, Head(buf).msg)
    /\ wire' = Append(wire, [from |-> Head(buf).from, to |-> "V",
                             msg |-> Head(buf).msg])
    /\ UNCHANGED <<proto, x, y, c, d, X, Y, C, D, prover, closed, closer,
                   randFails, mixVars, gp, eg>>

NextBuffered ==
    \/ ProverStart \/ VerifierStart
    \/ ProverSendBuf \/ ProverRecvBuf
    \/ VerifierSendBuf \/ VerifierRecvBuf

SpecBuffered == InitBuffered /\ [][NextBuffered]_vars

-----------------------------------------------------------------------------
\* SecretKey.Mix

\* A *big.Int: nil, or a pointer to a value.
NilPtr == <<>>
Ptr(v) == <<v>>

\* The secret keys GenerateKeys can return.
Keys == { kp.sk : kp \in GenerateKeysOf(Params) }

\* The ciphertexts (R[i], C[i]) a batch is made of, and the entries of perm:
\* the indices of a batch of n, one below and one above.
CtPool == {<<3, 4>>, <<9, 5>>}
PermVals(n) == (0 - 1) .. n

\* The output slot of input i with perm ignored.
DestSame(perm, i) == i

\* j := perm[i]
Dest(perm, i) == At(perm, i)

\* The emptiness test left out.
SlotFreeAlways(M, j) == TRUE

\* M[j] == nil
SlotFree(M, j) == At(M, j) = NilPtr

\* A call Mix(R, C, perm) on a batch of n ciphertexts, with C possibly one
\* element short and perm any array of n entries.
InitMix ==
    /\ sk \in Keys
    /\ \E n \in 0 .. MaxMix : \E ct \in [1 .. n -> CtPool] :
         /\ mixR = [k \in 1 .. n |-> ct[k][1]]
         /\ mixC \in { [k \in 1 .. n |-> ct[k][2]],
                       Short([k \in 1 .. n |-> ct[k][2]]) }
         /\ mixPerm \in [1 .. n -> PermVals(n)]
    /\ mix = Mix0
    /\ NoProof /\ NoGeneratePerm /\ NoElGamal

\* Mix up to its loop: the length check and M := make([]*big.Int, len(R)).
MixCall ==
    /\ mix.pc = "start"
    /\ mix' = IF Len(mixR) # Len(mixC)
              THEN [mix EXCEPT !.pc = "done", !.err = "errLen", !.out = NilMsg]
              ELSE [mix EXCEPT !.pc = "loop", !.i = 0,
                               !.M = Fill(Len(mixR), NilPtr),
                               !.writes = Zeros(Len(mixR))]
    /\ UNCHANGED <<proofVars, sk, mixR, mixC, mixPerm, gp, eg>>

\* One iteration of the loop.  M[j] is read before j is compared with the
\* bounds, so a j that is no index of M panics.
MixStep ==
    /\ mix.pc = "loop"
    /\ mix.i < Len(mixR)
    /\ LET i == mix.i
           j == Dest(mixPerm, i)
       IN  mix' =
             IF ~InRange(mixPerm, i) \/ ~InRange(mix.M, j)
             THEN [mix EXCEPT !.pc = "done", !.err = "panic", !.out = NilMsg]
             ELSE IF SlotFree(mix.M, j) /\ 0 <= j /\ j < Len(mixR)
             THEN [mix EXCEPT !.M[j + 1] =
                                  Ptr(Decrypt(At(mixR, i), At(mixC, i), sk)),
                              !.i = i + 1,
                              !.writes[j + 1] = @ + 1,
                              !.decrypts = @ + 1]
             ELSE [mix EXCEPT !.pc = "done", !.err = "errPerm", !.out = NilMsg]
    /\ UNCHANGED <<proofVars, sk, mixR, mixC, mixPerm, gp, eg>>

\* return M, nil
MixReturn ==
    /\ mix.pc = "loop"
    /\ ~(mix.i < Len(mixR))
    /\ mix' = [mix EXCEPT !.pc = "done", !.err = "nil", !.out = Msg(mix.M)]
    /\ UNCHANGED <<proofVars, sk, mixR, mixC, mixPerm, gp, eg>>

NextMix == MixCall \/ MixStep \/ MixReturn

SpecMix == InitMix /\ [][NextMix]_vars

-----------------------------------------------------------------------------
\* GeneratePerm

\* a ^ b on non-negative ints.
RECURSIVE Xor(_, _)
Xor(a, b) ==
    IF a = 0 THEN b
    ELSE IF b = 0 THEN a
    ELSE ((a + b) % 2) + 2 * Xor(a \div 2, b \div 2)

\* perm[i] ^= perm[j]; perm[j] ^= perm[i]; perm[i] ^= perm[j]
XorSwap(perm, i, j) ==
    LET p1 == [perm EXCEPT ![i + 1] = Xor(At(perm, i), At(perm, j))]
        p2 == [p1 EXCEPT ![j + 1] = Xor(At(p1, j), At(p1, i))]
    IN  [p2 EXCEPT ![i + 1] = Xor(At(p2, i), At(p2, j))]

\* The loop from index i down to 1, draws[i] being the j drawn at index i.
RECURSIVE LoopFrom(_, _, _)
LoopFrom(perm, i, draws) ==
    IF i >= 1 THEN LoopFrom(XorSwap(perm, i, draws[i]), i - 1, draws)
    ELSE perm

\* The draws a call GeneratePerm(n) can see: at index i, max is i.
DrawSeqs(n) ==
    { ds \in [1 .. (n - 1) -> 0 .. (n - 2)] :
        \A i \in 1 .. (n - 1) : ds[i] \in RandInt(i) }

\* What GeneratePerm(n) returns on the draws ds.
GeneratePermOf(n, ds) == LoopFrom([k \in 1 .. n |-> k - 1], n - 1, ds)

\* A call GeneratePerm(n).
InitPerm ==
    /\ \E n \in 0 .. MaxPerm : gp = [GeneratePerm0 EXCEPT !.n = n]
    /\ NoMix /\ NoProof /\ NoElGamal

\* GeneratePerm up to its loop: perm[i] = i, max = n.
GeneratePermCall ==
    /\ gp.pc = "start"
    /\ gp' = [gp EXCEPT !.pc = "loop", !.perm = [k \in 1 .. gp.n |-> k - 1],
                        !.max = gp.n, !.i = gp.n - 1]
    /\ UNCHANGED <<proofVars, mixVars, eg>>

\* max left as it is at the head of an iteration.
NotDecremented(max) == max

\* max.Sub(max, one)
Decremented(max) == max - 1

\* One iteration of the loop: max is decremented, j is drawn below max and
\* perm[i], perm[j] are exchanged.
GeneratePermStep ==
    /\ gp.pc = "loop"
    /\ gp.i >= 1
    /\ \E j \in RandInt(Decremented(gp.max)) :
         gp' = [gp EXCEPT !.max = Decremented(gp.max),
                          !.j = j,
                          !.perm = XorSwap(gp.perm, gp.i, j),
                          !.i = gp.i - 1]
    /\ UNCHANGED <<proofVars, mixVars, eg>>

\* rand.Int fails: return nil.  With max = 1 the draw is 0 and reads no
\* randomness, so it cannot fail.
GeneratePermFail ==
    /\ gp.pc = "loop"
    /\ gp.i >= 1
    /\ Decremented(gp.max) > 1
    /\ gp' = [gp EXCEPT !.pc = "done", !.max = Decremented(gp.max),
                        !.out = NilMsg]
    /\ UNCHANGED <<proofVars, mixVars, eg>>

\* return perm
GeneratePermReturn ==
    /\ gp.pc = "loop"
    /\ ~(gp.i >= 1)
    /\ gp' = [gp EXCEPT !.pc = "done", !.out = Msg(gp.perm)]
    /\ UNCHANGED <<proofVars, mixVars, eg>>

NextPerm ==
    \/ GeneratePermCall \/ GeneratePermStep
    \/ GeneratePermFail \/ GeneratePermReturn

SpecPerm == InitPerm /\ [][NextPerm]_vars

-----------------------------------------------------------------------------
\* GenerateKeys, Encrypt and Decrypt, one after the other

\* A plaintext M of the subgroup, under one of the groups.
InitElGamal ==
    /\ \E g \in Groups : \E m \in Subgroup(g) :
         eg = [ElGamal0 EXCEPT !.params = g, !.M = m]
    /\ NoProof /\ NoMix /\ NoGeneratePerm

\* pk, sk := GenerateKeys(params)
GenerateKeysCall ==
    /\ eg.pc = "start"
    /\ \E kp \in GenerateKeysOf(eg.params) :
         eg' = [eg EXCEPT !.pc = "keys", !.pk = kp.pk, !.sk = kp.sk]
    /\ UNCHANGED <<proofVars, mixVars, gp>>

\* rand.Int fails in GenerateKeys: return nil, nil.
GenerateKeysFail ==
    /\ eg.pc = "start"
    /\ eg' = [eg EXCEPT !.pc = "failed"]
    /\ UNCHANGED <<proofVars, mixVars, gp>>

\* R, C := Encrypt(M, pk): the exponent is a draw from [0, Q-1) plus one.
EncryptCall ==
    /\ eg.pc = "keys"
    /\ \E k \in RandInt(eg.pk.qMinusOne) :
         LET ct == EncryptWith(eg.M, eg.pk, k + eg.pk.one)
         IN  eg' = [eg EXCEPT !.pc = "encrypted", !.r = k + eg.pk.one,
                              !.R = ct.R, !.C = ct.C]
    /\ UNCHANGED <<proofVars, mixVars, gp>>

\* rand.Int fails in Encrypt: return nil, nil.
EncryptFail ==
    /\ eg.pc = "keys"
    /\ eg' = [eg EXCEPT !.pc = "failed"]
    /\ UNCHANGED <<proofVars, mixVars, gp>>

\* M := Decrypt(R, C, sk)
DecryptCall ==
    /\ eg.pc = "encrypted"
    /\ eg' = [eg EXCEPT !.pc = "done", !.out = Decrypt(eg.R, eg.C, eg.sk)]
    /\ UNCHANGED <<proofVars, mixVars, gp>>

NextElGamal ==
    \/ GenerateKeysCall \/ GenerateKeysFail
    \/ EncryptCall \/ EncryptFail \/ DecryptCall

SpecElGamal == InitElGamal /\ [][NextElGamal]_vars

-----------------------------------------------------------------------------
\* Properties

\* The product of the elements of s, modulo Q.
RECURSIVE ProdQ(_)
ProdQ(s) == IF s = <<>> THEN 1 % Q ELSE (Head(s) * ProdQ(Tail(s))) % Q

Returned(p) == p.pc = "done"
Accepted == Returned(verifier) /\ verifier.ret = "ok" /\ verifier.ok
Rejected == Returned(verifier) /\ verifier.ret = "ok" /\ ~verifier.ok

\* An ILMP run of ILMPProve(x, y) against ILMPVerify(G^x, G^y), N >= 2.
ILMPRun == proto = "ilmp" /\ Len(x) = Len(y) /\ Len(x) >= 2

\* C1: in an ILMP run with N >= 2 on x, y whose products agree modulo Q, the
\* verifier returns (true, nil) and the prover returns nil, whatever theta
\* and gamma were drawn.
C1_ILMPComplete ==
    (ILMPRun /\ ProdQ(x) = ProdQ(y)) =>
        /\ Returned(verifier) => Accepted
        /\ Returned(prover) => prover.ret = "ok"

C1_Witness ==
    /\ ILMPRun /\ Len(x) = 3 /\ x # y /\ ProdQ(x) = ProdQ(y)
    /\ Accepted /\ Returned(prover)

C3_Shuffle0Complete ==
    (proto = "shuffle0" /\ Len(x) = Len(y)) => (Returned(verifier) => Accepted)

\* C4: an ILMP run on sequences of length 1 with x[0] = y[0] mod Q completes
\* and the verifier accepts, reading no element of the empty response.
C4_ILMPLengthOne ==
    (proto = "ilmp" /\ Len(x) = 1 /\ Len(y) = 1 /\ ProdQ(x) = ProdQ(y)) =>
        (Returned(verifier) => Accepted)

\* The parties called with two sequences of different lengths.
PMismatch == Len(x) # Len(y)
VMismatch == Len(X) # Len(Y)

\* The messages a party put on the channel.
SentBy(who) == { wire[k].msg : k \in { j \in 1 .. Len(wire) : wire[j].from = who } }

\* Both goroutines have returned.
RunOver == Returned(prover) /\ Returned(verifier)

\* C5: a party called with sequences of different lengths returns the
\* length-mismatch error having sent nothing but the abort signal, its honest
\* peer returns the peer-aborted error, and neither blocks forever.
C5_MismatchNeverHangs ==
    /\ PMismatch =>
        /\ Returned(prover) => prover.ret = "errLen"
        /\ SentBy("P") \subseteq {NilMsg}
        /\ (~VMismatch /\ Returned(verifier)) => verifier.ret = "errPeer"
    /\ VMismatch =>
        /\ Returned(verifier) => verifier.ret = "errLen"
        /\ SentBy("V") \subseteq {NilMsg}
        /\ (~PMismatch /\ Returned(prover)) => prover.ret = "errPeer"
    /\ (PMismatch \/ VMismatch) => (RunOver \/ ENABLED Next)

\* The positions of a party that has not done its last receive yet.
PBeforeLastRecv == {"start", "recvT", "sendA", "recvGamma"}
VBeforeLastRecv == {"start", "sendT", "recvA", "sendGamma", "recvR"}

\* C6: when one side closes the channel before the other party has done its
\* last receive, that party returns the peer-aborted error: it does not
\* panic, whatever its next channel operation is.
C6_CloseIsCleanAbort ==
    /\ (closer.by = "V" /\ closer.peer \in PBeforeLastRecv /\ Returned(prover))
           => prover.ret = "errPeer"
    /\ (closer.by = "P" /\ closer.peer \in VBeforeLastRecv /\ Returned(verifier))
           => verifier.ret = "errPeer"

\* perm is a bijection on [0, n).
IsPerm(perm, n) ==
    /\ Len(perm) = n
    /\ { perm[k] : k \in 1 .. Len(perm) } = 0 .. (n - 1)

\* Mix is called with R, C and perm of one length n.
MixLengthsAgree == Len(mixR) = Len(mixC) /\ Len(mixPerm) = Len(mixR)

\* C7: on R, C of length n and a bijection perm on [0, n), Mix returns no
\* error and M of length n with M[perm[i]] = Decrypt(R[i], C[i]) for every i,
\* each slot written exactly once.
C7_MixCorrect ==
    (mix.pc = "done" /\ MixLengthsAgree /\ IsPerm(mixPerm, Len(mixR))) =>
        /\ mix.err = "nil" /\ ~mix.out.nil
        /\ Len(mix.out.v) = Len(mixR)
        /\ \A i \in 0 .. (Len(mixR) - 1) :
              At(mix.out.v, At(mixPerm, i))
                  = Ptr(Decrypt(At(mixR, i), At(mixC, i), sk))
        /\ \A k \in 1 .. Len(mixR) : mix.writes[k] = 1

C7_Witness ==
    /\ mix.pc = "done" /\ MixLengthsAgree /\ Len(mixR) = 3
    /\ mixPerm = <<2, 0, 1>> /\ mixR[1] # mixR[2]
    /\ mix.err = "nil"

\* Some entry of perm is no index of the batch.
OutOfRange == \E k \in 1 .. Len(mixPerm) : ~InRange(mixR, mixPerm[k])

\* C8: on R, C, perm of length n with some perm[i] outside [0, n), Mix
\* returns the not-a-permutation error and a nil result; it does not index
\* outside the output sequence.
C8_MixRejectsOutOfRange ==
    (mix.pc = "done" /\ MixLengthsAgree /\ OutOfRange) =>
        (mix.err = "errPerm" /\ mix.out.nil)

\* Every entry of perm is an index of the batch, and two entries are equal.
Collision ==
    /\ \A k \in 1 .. Len(mixPerm) : InRange(mixR, mixPerm[k])
    /\ \E k, l \in 1 .. Len(mixPerm) : k # l /\ mixPerm[k] = mixPerm[l]

\* The first input index whose slot an earlier index has taken.
FirstCollision ==
    CHOOSE l \in 1 .. Len(mixPerm) :
        /\ \E k \in 1 .. (l - 1) : mixPerm[k] = mixPerm[l]
        /\ \A m \in 1 .. (l - 1) : \A k \in 1 .. (m - 1) : mixPerm[k] # mixPerm[m]

\* C9: on a perm with all entries in range and two equal, Mix returns the
\* not-a-permutation error and a nil result, at the first collision; when
\* len(R) # len(C) it returns the length-mismatch error and a nil result
\* before decrypting anything.
C9_MixFailureIsTotal ==
    /\ (mix.pc = "done" /\ MixLengthsAgree /\ Collision) =>
          /\ mix.err = "errPerm" /\ mix.out.nil
          /\ mix.decrypts = FirstCollision - 1
    /\ (mix.pc = "done" /\ Len(mixR) # Len(mixC)) =>
          /\ mix.err = "errLen" /\ mix.out.nil
          /\ mix.decrypts = 0

C9_Witness ==
    /\ mix.pc = "done" /\ MixLengthsAgree /\ Len(mixR) = 3
    /\ mixPerm = <<1, 0, 1>> /\ mix.err = "errPerm" /\ mix.decrypts = 2

\* C10: GeneratePerm(n) returns a bijection on [0, n), and perm is one after
\* every step of the loop, whatever is drawn.
C10_PermIsBijection ==
    /\ gp.pc = "loop" => IsPerm(gp.perm, gp.n)
    /\ (gp.pc = "done" /\ ~gp.out.nil) => IsPerm(gp.out.v, gp.n)

C10_Witness ==
    gp.pc = "done" /\ ~gp.out.nil /\ gp.n = 4 /\ gp.out.v = <<1, 2, 3, 0>>

\* The bijections on [0, n), and the draws on which GeneratePerm(n) returns p.
Perms(n) == { p \in [1 .. n -> 0 .. (n - 1)] : IsPerm(p, n) }
DrawsGiving(n, p) == { ds \in DrawSeqs(n) : GeneratePermOf(n, ds) = p }

\* C11: for n = 2, 3, 4 every permutation of [0, n), the identity included,
\* is returned by GeneratePerm(n) on some draws, and each on as many draws as
\* any other.
C11_EveryPermProduced ==
    (gp.pc = "done" /\ ~gp.out.nil /\ gp.n \in 2 .. 4) =>
        \A p \in Perms(gp.n) :
            /\ DrawsGiving(gp.n, p) # {}
            /\ Cardinality(DrawsGiving(gp.n, p))
                 = Cardinality(DrawsGiving(gp.n, [k \in 1 .. gp.n |-> k - 1]))

\* C12: for every group, every key pair GenerateKeys gives, every plaintext
\* M of the subgroup and every exponent r in [1, Q-1], decrypting the
\* encryption (G^r, M * Y^r) of M under the secret key gives M back.
C12_RoundTrip ==
    /\ eg.pc \in {"encrypted", "done"} =>
          /\ eg.r \in 1 .. (eg.params.Q - 1)
          /\ eg.R = Exp(eg.params.G, eg.r, eg.params.P)
          /\ eg.C = (eg.M * Exp(eg.pk.Y, eg.r, eg.params.P)) % eg.params.P
    /\ eg.pc = "done" => eg.out = eg.M

C12_Witness ==
    /\ eg.pc = "done" /\ eg.params.Q = 11 /\ eg.sk.X = 10 /\ eg.r = 7
    /\ eg.M = 4 /\ eg.C # eg.M /\ eg.out = 4

\* C14: whatever is drawn, GenerateKeys returns X in [1, Q-1], qMinusX = Q - X
\* and Y = G^X mod P, both keys carrying the P, G, Q of the parameters.
C14_KeysWellFormed ==
    eg.pc \in {"keys", "encrypted", "done"} =>
        /\ eg.sk.X \in 1 .. (eg.params.Q - 1)
        /\ eg.sk.qMinusX = eg.params.Q - eg.sk.X
        /\ eg.pk.Y = Exp(eg.params.G, eg.sk.X, eg.params.P)
        /\ <<eg.sk.P, eg.sk.G, eg.sk.Q>>
             = <<eg.params.P, eg.params.G, eg.params.Q>>
        /\ <<eg.pk.P, eg.pk.G, eg.pk.Q>>
             = <<eg.params.P, eg.params.G, eg.params.Q>>

C14_Witness ==
    /\ eg.pc = "keys" /\ eg.params.Q = 5
    /\ eg.sk.X = 4 /\ eg.sk.qMinusX = 1 /\ eg.pk.Y = 4

\* The inverse of a modulo Q, for a not a multiple of Q.
InvQ(a) == CHOOSE k \in 0 .. (Q - 1) : (k * a) % Q = 1

\* The product of s[i+1..N-1] modulo Q (indices from 0).
TailProdQ(s, i) == ProdQ(SubSeq(s, i + 2, Len(s)))

\* theta[i+1] + (-1)^(N-i-1) * gamma * prod y[i+1..] * (prod x[i+1..])^-1.
ClosedForm(xs, ys, theta, gamma0, i) ==
    LET term == gamma0 * TailProdQ(ys, i) * InvQ(TailProdQ(xs, i))
    IN  At(theta, i + 1)
          + (IF (Len(xs) - i - 1) % 2 = 1 THEN 0 - term ELSE term)

\* The prover has computed its response.
Responded == prover.pc = "sendR" \/ (Returned(prover) /\ prover.ret = "ok")

\* C15: for N >= 2 and x, y with entries non-zero modulo Q, every r[i] that
\* ILMPProve sends is congruent modulo Q to theta[i+1] + (-1)^(N-i-1) * gamma
\* * prod y[i+1..N-1] * (prod x[i+1..N-1])^-1, the inverse taken modulo Q.
C15_ResponseFormula ==
    (ILMPRun /\ Responded) =>
        /\ Len(prover.out.v) = Len(x) - 1
        /\ \A i \in 0 .. (Len(x) - 2) :
              At(prover.out.v, i) % Q
                = ClosedForm(x, y, prover.theta, At(prover.gamma, 0), i) % Q

C15_Witness ==
    /\ ILMPRun /\ Len(x) = 3 /\ prover.pc = "sendR"
    /\ x = <<3, 7, 3>> /\ y = <<7, 7, 3>> /\ prover.gamma = <<2>>
    /\ At(prover.out.v, 0) # At(prover.theta, 1)

\* The verification equations on what the verifier holds, modulo P.
EqFirst ==
    LET N == Len(verifier.X)
        e == IF (N - 1) % 2 = 1 THEN Q - verifier.gamma[1] ELSE verifier.gamma[1]
    IN  Exp(verifier.Y[1], verifier.r[1], P)
          = (verifier.A[1] * Exp(verifier.X[1], e, P)) % P
EqMiddle(k) ==
    (Exp(verifier.X[k], verifier.r[k - 1], P)
        * Exp(verifier.Y[k], verifier.r[k], P)) % P = verifier.A[k]
EqLast ==
    LET N == Len(verifier.X)
    IN  Exp(verifier.X[N], verifier.r[N - 1], P)
          = (verifier.A[N] * Exp(verifier.Y[N], Q - verifier.gamma[1], P)) % P

\* C16: for N >= 2 and any commitment A of length N and response r of length
\* N-1 received, ILMPVerify returns true if and only if the first equation,
\* every intermediate equation and the last equation hold modulo P.
C16_VerifierDecision ==
    (proto = "ilmp" /\ Len(X) >= 2 /\ Returned(verifier)
       /\ Len(verifier.A) = Len(X) /\ Len(verifier.r) = Len(X) - 1) =>
        /\ verifier.ret = "ok"
        /\ verifier.ok <=>
              /\ EqFirst
              /\ \A k \in 2 .. (Len(X) - 1) : EqMiddle(k)
              /\ EqLast

\* Only an intermediate equation fails, and the verifier rejects.
C16_Witness ==
    /\ proto = "ilmp" /\ Len(X) = 3 /\ Rejected
    /\ EqFirst /\ ~EqMiddle(2) /\ EqLast

\* The challenge t has crossed the channel of a Shuffle0 run.
Extended ==
    /\ proto = "shuffle0" /\ Len(x) = Len(y)
    /\ Len(wire) >= 1 /\ ~wire[1].msg.nil

\* C17: in a Shuffle0 run the sequences the prover and the verifier extend
\* have length 2N and agree index by index: Phi[k] = G^phi[k] and
\* Psi[k] = G^psi[k] modulo P, with phi[i] = x[i] - d*t, phi[N+i] = c,
\* psi[i] = y[i] - c*t, psi[N+i] = d, Phi[i] = X[i] * D^-t, Phi[N+i] = C,
\* Psi[i] = Y[i] * C^-t, Psi[N+i] = D, for the one t the verifier sent.
C17_Shuffle0Layout ==
    Extended =>
        LET N == Len(x)
            t == verifier.t
        IN  /\ wire[1].msg.v = <<t>>
            /\ Len(prover.x) = 2 * N /\ Len(prover.y) = 2 * N
            /\ Len(verifier.X) = 2 * N /\ Len(verifier.Y) = 2 * N
            /\ \A k \in 1 .. (2 * N) :
                  /\ verifier.X[k] = Exp(G, prover.x[k], P)
                  /\ verifier.Y[k] = Exp(G, prover.y[k], P)
            /\ \A i \in 1 .. N :
                  /\ prover.x[i] = (x[i] - d * t) % Q
                  /\ prover.x[N + i] = c
                  /\ prover.y[i] = (y[i] - c * t) % Q
                  /\ prover.y[N + i] = d
                  /\ (verifier.X[i] * Exp(D, t, P)) % P = X[i]
                  /\ verifier.X[N + i] = C
                  /\ (verifier.Y[i] * Exp(C, t, P)) % P = Y[i]
                  /\ verifier.Y[N + i] = D

C17_Witness ==
    /\ Extended /\ Len(x) = 2 /\ d = 2 /\ verifier.t = 3
    /\ prover.x = <<1, 3, 33, 33>> /\ verifier.Y[4] = 9
    /\ verifier.pc = "recvR"

\* The messages the verifier received from the prover.
FromProver == { wire[k].msg : k \in { j \in 1 .. Len(wire) : wire[j].from = "P" } }

\* All the verification equations hold on what the verifier holds.
AllEquations ==
    EqFirst /\ (\A k \in 2 .. (Len(verifier.X) - 1) : EqMiddle(k)) /\ EqLast

\* The verifier has returned (not panicked).
VReturned == Returned(verifier) /\ verifier.ret # "panic"

\* C13: the verifier returns (true, nil), (false, nil) or (false, error) and
\* nothing else; (false, nil) only after both prover messages arrived
\* non-absent and an equation failed; an absent message, a length mismatch
\* or an entropy failure gives (false, error); and Shuffle0Verify returns an
\* error exactly when its ILMPVerify, or its own check, does.
C13_OutcomesDistinct ==
    VReturned =>
        /\ verifier.ret # "ok" => ~verifier.ok
        /\ Rejected =>
              /\ Cardinality({ m \in FromProver : ~m.nil }) = 2
              /\ NilMsg \notin FromProver
              /\ ~AllEquations
        /\ Accepted => NilMsg \notin FromProver /\ AllEquations
        /\ NilMsg \in FromProver => verifier.ret = "errPeer"
        /\ VMismatch => verifier.ret = "errLen"
        /\ NilMsg \in SentBy("V") => verifier.ret \in {"errLen", "errRand"}
        /\ proto = "shuffle0" =>
              IF verifier.inner.ret = "none"
              THEN verifier.ret \in {"errLen", "errRand"}
              ELSE /\ verifier.ret = verifier.inner.ret
                   /\ verifier.ok = verifier.inner.ok

C13_Witness ==
    /\ proto = "shuffle0" /\ VReturned
    /\ verifier.ret = "errPeer" /\ verifier.inner = [ok |-> FALSE, ret |-> "errPeer"]
    /\ Len(wire) = 2

\* Who sends each message of a run, in order, and the messages that cross
\* before ILMP's own.
Senders == IF proto = "ilmp" THEN <<"P", "V", "P">> ELSE <<"V", "P", "V", "P">>
Before == IF proto = "ilmp" THEN 0 ELSE 1

\* Both parties returned without an error.
Completed ==
    /\ RunOver /\ prover.ret = "ok" /\ verifier.ret = "ok"

\* No abort signal has crossed and no party is about to send one.
NoAbort ==
    /\ \A k \in 1 .. Len(wire) : ~wire[k].msg.nil
    /\ prover.pc # "sendNil" /\ verifier.pc # "sendNil"

\* C18: the messages of a run that does not abort cross in the order A
\* (prover, length N), gamma (verifier, length 1), r (prover, length N-1),
\* after t (verifier, length 1) in a Shuffle0 run, whose ILMP instance has
\* length 2N; a complete run has exactly these messages; the verifier has a
\* gamma only once A has arrived, the prover an r only once gamma has.
C18_MessageOrder ==
    LET N == IF proto = "ilmp" THEN Len(X) ELSE 2 * Len(X)
        b == Before
    IN  /\ NoAbort =>
              /\ Len(wire) <= Len(Senders)
              /\ \A k \in 1 .. Len(wire) : wire[k].from = Senders[k]
              /\ verifier.gamma # <<>> =>
                    Len(wire) >= b + 1 /\ verifier.A = wire[b + 1].msg.v
              /\ prover.pc = "sendR" =>
                    Len(wire) = b + 2 /\ prover.gamma = wire[b + 2].msg.v
        /\ Completed =>
              /\ Len(wire) = Len(Senders)
              /\ b = 1 => Len(wire[1].msg.v) = 1
              /\ Len(wire[b + 1].msg.v) = N
              /\ Len(wire[b + 2].msg.v) = 1
              /\ Len(wire[b + 3].msg.v) = N - 1

C18_Witness ==
    /\ proto = "shuffle0" /\ Len(X) = 2 /\ Completed
    /\ Len(wire) = 4 /\ Len(wire[4].msg.v) = 3

\* How many abort signals a party has sent.
NilsSentBy(who) ==
    Cardinality({ k \in 1 .. Len(wire) : wire[k].from = who /\ wire[k].msg.nil })

\* A call of Sample has failed in the prover, in the verifier.
PSampleFailed == prover.ret = "errRand"
VSampleFailed == verifier.ret = "errRand"

\* C20: when Sample fails in a party of a run on inputs of equal lengths,
\* that party sends nil once and returns the error, its peer receives the
\* nil at its next receive and returns the peer-aborted error, neither
\* blocks forever, and the verifier does not return true.
C20_EntropyFailureAborts ==
    (~PMismatch /\ ~VMismatch) =>
        /\ PSampleFailed =>
              /\ NilsSentBy("P") = (IF Returned(prover) THEN 1 ELSE 0)
              /\ Returned(verifier) => verifier.ret = "errPeer"
              /\ Returned(prover) => Returned(verifier)
        /\ VSampleFailed =>
              /\ NilsSentBy("V") = (IF Returned(verifier) THEN 1 ELSE 0)
              /\ Returned(prover) => prover.ret = "errPeer"
              /\ Returned(verifier) => Returned(prover)
        /\ (PSampleFailed \/ VSampleFailed) =>
              /\ ~verifier.ok
              /\ RunOver \/ ENABLED Next

C20_Witness ==
    /\ proto = "shuffle0" /\ ~PMismatch /\ ~VMismatch
    /\ PSampleFailed /\ RunOver /\ verifier.ret = "errPeer"
    /\ Len(wire) = 2 /\ wire[2] = [from |-> "P", to |-> "V", msg |-> NilMsg]

\* C19: on a channel that holds one item, where a send does not block and a
\* receive does, no party receives a message it sent itself: the gamma the
\* prover uses is the one the verifier sent, and the A and r the verifier
\* checks are those the prover sent.
C19_StrictAlternation ==
    /\ \A k \in 1 .. Len(wire) : wire[k].from # wire[k].to
    /\ (prover.gamma # <<>> /\ prover.pc \in {"sendR", "done"})
           => prover.gamma = verifier.gamma
    /\ (verifier.A # <<>> /\ prover.pc \in {"recvGamma", "sendR"}
           /\ Len(prover.x) >= 1) =>
           verifier.A = Commit(prover.x, prover.y, prover.theta)

\* C21: an honest run on inputs of equal length (ILMP with N >= 2, Shuffle0
\* with N >= 1) over an unbuffered channel, with no entropy failure, does
\* not deadlock: under fair scheduling both parties eventually return, the
\* verifier with (true, nil) or (false, nil) and the prover with nil.
C21_HonestRunsTerminate ==
    <>(RunOver /\ prover.ret = "ok" /\ (Accepted \/ Rejected))

C21_Witness ==
    /\ proto = "shuffle0" /\ Len(x) = MaxK /\ Len(wire) = 4
    /\ RunOver /\ prover.ret = "ok" /\ Accepted

\* C22: at the step of GeneratePerm for index i (from n-1 down to 1), every
\* j of the inclusive range [0, i] is a possible draw, j = i among them, and
\* no other; the range is one shorter at each step.
C22_DrawRangeInclusive ==
    (gp.pc = "loop" /\ gp.i >= 1) =>
        /\ \A j \in 0 .. gp.i : ENABLED (GeneratePermStep /\ gp'.j = j)
        /\ RandInt(Decremented(gp.max)) \subseteq 0 .. gp.i

\* The product of the elements of s.
RECURSIVE Prod(_)
Prod(s) == IF s = <<>> THEN 1 ELSE Head(s) * Prod(Tail(s))

ProverValues ==
    { k \in 1 .. Len(wire) : wire[k].from = "P" /\ ~wire[k].msg.nil }

\* The prover's response r has been delivered: it is the second value the
\* prover sends, after A.
RDelivered == Cardinality(ProverValues) = 2

\* C25: in every ILMP or Shuffle0 run, once the prover has delivered r it
\* has returned nil, whether the verifier accepts, rejects or fails; r is the
\* last message of the run and the verifier sends nothing after its
\* challenge, so the prover is never left waiting for the verdict and holds
\* nothing the verifier computed after gamma.
C25_ProverIgnoresVerdict ==
    /\ RDelivered =>
          /\ Returned(prover) /\ prover.ret = "ok"
          /\ wire[Len(wire)].from = "P" /\ Len(wire) = Before + 3
          /\ verifier.pc \notin VSendPcs
          /\ prover.gamma = wire[Before + 2].msg.v
    /\ \A k \in 1 .. Len(wire) : wire[k].from = "V" => k <= Before + 2
    /\ (Accepted \/ Rejected) => (RDelivered /\ prover.ret = "ok")

C25_Witness ==
    /\ proto = "shuffle0" /\ Len(x) = MaxK /\ RDelivered
    /\ Rejected /\ Returned(prover) /\ prover.ret = "ok"

\* The cells i and j of perm exchanged.
Exchanged(perm, i, j) ==
    [perm EXCEPT ![i + 1] = At(perm, j), ![j + 1] = At(perm, i)]

====
